---- MODULE Spec2Model ----
(***************************************************************************)
(* Settings synchronisation and reconnection of the display client         *)
(* (src/js/theme-loader.js, lines 9-382) together with the slideshow       *)
(* restart it triggers (src/js/slideshow.js).                              *)
(*                                                                         *)
(* JavaScript values are encoded as follows.                               *)
(*   - a possibly missing value is a tuple: <<"undefined">>, <<"null">>    *)
(*     or <<"val", v>>;                                                    *)
(*   - a colour string "#rrggbb" is the tuple of its six hex digits, any   *)
(*     other tuple is a string the regular expression of hexToRgb rejects; *)
(*   - a JSON text is a record [wellFormed, body]: JSON.parse throws on a   *)
(*     text that is not well formed and yields body otherwise.             *)
(* The page is modelled from the moment the theme loader's init() has      *)
(* returned: the fetch of /api/settings is in flight and the first         *)
(* EventSource is connecting.  The document is still being parsed, so the  *)
(* elements the loader looks up by id exist only from DOMContentLoaded on. *)
(***************************************************************************)
EXTENDS Integers, Sequences, FiniteSets, TLC

\* ------------------------------------------------------------------ bounds
MaxConns == 3
MaxMsgs == 2

\* --------------------------------------------------------- program constants
ReconnectDelay == 5000
SLIDESHOW_DEFAULT_INTERVAL_MS == 8000
LivestreamDefaultCheckInterval == 60000

\* ------------------------------------------------------------ value encoding
Undefined == <<"undefined">>
Null == <<"null">>
Some(v) == <<"val", v>>
IsVal(x) == x[1] = "val"
Val(x) == x[2]

\* JavaScript truthiness of a possibly missing string, number or boolean
TruthyStr(x) == IsVal(x) /\ Val(x) # ""
TruthyNum(x) == IsVal(x) /\ Val(x) # 0
TruthyBool(x) == IsVal(x) /\ Val(x) = TRUE
\* theme colours are digit tuples: the empty string is the empty tuple
TruthyColor(x) == IsVal(x) /\ Val(x) # <<>>

\* the elements of a list
Range(seq) == {seq[i] : i \in 1..Len(seq)}

JSONText(v) == [wellFormed |-> TRUE, body |-> v]
Garbage == [wellFormed |-> FALSE, body |-> Undefined]
JSONParse(text) == IF text.wellFormed THEN [ok |-> TRUE, val |-> text.body]
                                      ELSE [ok |-> FALSE, val |-> Undefined]

\* ------------------------------------------------------------------- themes
hexToRgb(hex) ==
    IF Len(hex) = 6 /\ \A i \in 1..6 : hex[i] \in 0..15
    THEN [r |-> 16 * hex[1] + hex[2], g |-> 16 * hex[3] + hex[4], b |-> 16 * hex[5] + hex[6]]
    ELSE [r |-> 0, g |-> 0, b |-> 0]

\* rgba(r, g, b, opacity / 100); the alpha is kept as the fraction <<n, 100>>
Rgba(hex, opacity) == [rgb |-> hexToRgb(hex), alpha |-> <<opacity, 100>>]

NoTheme == [bgGradientStart |-> Undefined, bgGradientEnd |-> Undefined,
            mainContentBg |-> Undefined, mainContentOpacity |-> Undefined,
            weatherPanelBg |-> Undefined, weatherPanelOpacity |-> Undefined,
            bottomPanelBg |-> Undefined, bottomPanelOpacity |-> Undefined,
            accentColor |-> Undefined]

Red == <<15, 15, 0, 0, 0, 0>>
Navy == <<1, 14, 3, 12, 7, 2>>
NotAColor == <<15, 15>>

ThemeRed == [NoTheme EXCEPT !.accentColor = Some(Red)]
ThemeFull == [bgGradientStart |-> Some(Navy), bgGradientEnd |-> Some(Red),
              mainContentBg |-> Some(Navy), mainContentOpacity |-> Some(80),
              weatherPanelBg |-> Some(NotAColor), weatherPanelOpacity |-> Some(0),
              bottomPanelBg |-> Some(Red), bottomPanelOpacity |-> Some(100),
              accentColor |-> Some(Navy)]

\* the custom properties of document.documentElement.style
DefaultStyle == [bgGradientStart |-> Undefined, bgGradientEnd |-> Undefined,
                 panelBg |-> Undefined, panelDark |-> Undefined,
                 panelDarker |-> Undefined, accentGold |-> Undefined]

\* ------------------------------------------------------------ configuration
GeneralLincoln == [schoolName |-> Some("Lincoln HS"), slideshowInterval |-> Undefined]
GeneralOak == [schoolName |-> Some("Oak MS"), slideshowInterval |-> Some(5000)]

LivestreamOn == [enabled |-> Some(TRUE), url |-> Some("https://x/y"),
                 autoDetect |-> Some(TRUE), checkInterval |-> Some(30000)]
LivestreamOff == [enabled |-> Some(FALSE), url |-> Undefined,
                  autoDetect |-> Undefined, checkInterval |-> Undefined]

SlidesAB == <<[content |-> "a"], [content |-> "b"]>>
SlidesC == <<[content |-> "c"]>>

\* window.CONFIG as config.js sets it
DefaultCONFIG == [SCHOOL_NAME |-> Some("Your School Name Here"),
                  SLIDESHOW_INTERVAL |-> Some(8000),
                  LIVESTREAM_URL |-> Null,
                  AUTO_DETECT_LIVESTREAM |-> Undefined,
                  LIVESTREAM_CHECK_INTERVAL |-> Undefined,
                  USE_IMAGE_SLIDES |-> Undefined]

\* ----------------------------------------------------------------- bundles
EmptyBundle == [customTheme |-> Undefined, generalConfig |-> Undefined,
                livestreamConfig |-> Undefined, customSlides |-> Undefined,
                USE_IMAGE_SLIDES |-> Undefined]
BundleA == [customTheme |-> Some(ThemeRed), generalConfig |-> Some(GeneralLincoln),
            livestreamConfig |-> Undefined, customSlides |-> Some(SlidesAB),
            USE_IMAGE_SLIDES |-> Undefined]
BundleB == [customTheme |-> Null, generalConfig |-> Some(GeneralOak),
            livestreamConfig |-> Some(LivestreamOn), customSlides |-> Some(SlidesC),
            USE_IMAGE_SLIDES |-> Some(TRUE)]
BundleC == [customTheme |-> Some(ThemeFull), generalConfig |-> Undefined,
            livestreamConfig |-> Some(LivestreamOff), customSlides |-> Some(<<>>),
            USE_IMAGE_SLIDES |-> Null]
\* the bundles the server holds while the display runs
Bundles == {BundleA, BundleB}

\* --------------------------------------------------------------- the page
\* The state the appliers act on:
\*   style        custom properties set on the root element
\*   CONFIG       window.CONFIG
\*   domReady     document.readyState is no longer 'loading'
\*   schoolNameEl text of the element with id schoolName
\*   slidesDom    the .slide elements of the slideshow container, in order
\*   activeSlides the positions of the elements carrying the class active
\*   dcl          the DOMContentLoaded listeners the loader has registered
\*   ssN, currentSlide, slideshowInterval   state of the slideshow module
\*   intervals    the interval timers of the page that are running
\*   ssAwaiting   Slideshow.init is suspended at await loadImageSlides()
\*   monitor, lsActive   the livestream monitor and whether a stream shows
\*   alert        the emergency alert on display
DefaultSlides == <<[content |-> "welcome"]>>

InitPage == [style |-> DefaultStyle, CONFIG |-> DefaultCONFIG, domReady |-> FALSE,
             schoolNameEl |-> Undefined, slidesDom |-> DefaultSlides,
             activeSlides |-> {1}, dcl |-> <<>>,
             ssN |-> 0, currentSlide |-> 0, slideshowInterval |-> Null,
             intervals |-> {}, ssAwaiting |-> FALSE,
             monitor |-> Undefined, lsActive |-> FALSE, alert |-> Undefined]

\* setInterval returns a handle that no running interval timer carries
FreshInterval(pg) ==
    CHOOSE i \in 1..(Cardinality(pg.intervals) + 1) : \A t \in pg.intervals : t.id # i

stopSlideshow(pg) ==
    IF pg.slideshowInterval # Null
    THEN [pg EXCEPT !.intervals = {t \in pg.intervals : t.id # Val(pg.slideshowInterval)},
                    !.slideshowInterval = Null]
    ELSE pg

initSlideshow(pg) ==
    LET n == IF pg.domReady THEN Len(pg.slidesDom) ELSE 0
        interval == IF TruthyNum(pg.CONFIG.SLIDESHOW_INTERVAL)
                    THEN Val(pg.CONFIG.SLIDESHOW_INTERVAL)
                    ELSE SLIDESHOW_DEFAULT_INTERVAL_MS
        id == FreshInterval(pg)
    IN  IF n > 0
        THEN [pg EXCEPT !.ssN = n, !.currentSlide = 0, !.activeSlides = {1},
                        !.intervals = pg.intervals \cup {[id |-> id, ms |-> interval]},
                        !.slideshowInterval = Some(id)]
        ELSE [pg EXCEPT !.ssN = n]

restartSlideshow(pg) == initSlideshow(stopSlideshow(pg))

\* window.Livestream and window.EmergencyAlert are capabilities the loader
\* calls; their modules are not part of the sources at hand.
LivestreamStopMonitoring(pg) == [pg EXCEPT !.monitor = Undefined]
LivestreamStartMonitoring(pg) ==
    [pg EXCEPT !.monitor = Some(IF TruthyNum(pg.CONFIG.LIVESTREAM_CHECK_INTERVAL)
                                THEN Val(pg.CONFIG.LIVESTREAM_CHECK_INTERVAL)
                                ELSE LivestreamDefaultCheckInterval)]
LivestreamShowNull(pg) == restartSlideshow([pg EXCEPT !.lsActive = FALSE])
EmergencyAlertShow(a, pg) == [pg EXCEPT !.alert = Some(a)]
EmergencyAlertHide(pg) == [pg EXCEPT !.alert = Undefined]

\* ---------------------------------------------------------------- appliers
PanelColor(bg, opacity) ==
    Rgba(IF IsVal(bg) THEN Val(bg) ELSE <<>>, IF IsVal(opacity) THEN Val(opacity) ELSE 0)

\* variant: the properties the theme does not supply are removed
applyThemeReset(theme, pg) ==
    IF ~IsVal(theme) THEN pg
    ELSE LET t == Val(theme)
             s0 == DefaultStyle
             s1 == IF TruthyColor(t.bgGradientStart) /\ TruthyColor(t.bgGradientEnd)
                   THEN [s0 EXCEPT !.bgGradientStart = t.bgGradientStart,
                                   !.bgGradientEnd = t.bgGradientEnd]
                   ELSE s0
             s2 == IF t.mainContentBg # Undefined /\ t.mainContentOpacity # Undefined
                   THEN [s1 EXCEPT !.panelBg = Some(PanelColor(t.mainContentBg, t.mainContentOpacity))]
                   ELSE s1
             s3 == IF t.weatherPanelBg # Undefined /\ t.weatherPanelOpacity # Undefined
                   THEN [s2 EXCEPT !.panelDark = Some(PanelColor(t.weatherPanelBg, t.weatherPanelOpacity))]
                   ELSE s2
             s4 == IF t.bottomPanelBg # Undefined /\ t.bottomPanelOpacity # Undefined
                   THEN [s3 EXCEPT !.panelDarker = Some(PanelColor(t.bottomPanelBg, t.bottomPanelOpacity))]
                   ELSE s3
             s5 == IF TruthyColor(t.accentColor)
                   THEN [s4 EXCEPT !.accentGold = t.accentColor]
                   ELSE s4
         IN  [pg EXCEPT !.style = s5]

applyTheme(theme, pg) ==
    IF ~IsVal(theme) THEN pg
    ELSE LET t == Val(theme)
             s0 == pg.style
             s1 == IF TruthyColor(t.bgGradientStart) /\ TruthyColor(t.bgGradientEnd)
                   THEN [s0 EXCEPT !.bgGradientStart = t.bgGradientStart,
                                   !.bgGradientEnd = t.bgGradientEnd]
                   ELSE s0
             s2 == IF t.mainContentBg # Undefined /\ t.mainContentOpacity # Undefined
                   THEN [s1 EXCEPT !.panelBg = Some(PanelColor(t.mainContentBg, t.mainContentOpacity))]
                   ELSE s1
             s3 == IF t.weatherPanelBg # Undefined /\ t.weatherPanelOpacity # Undefined
                   THEN [s2 EXCEPT !.panelDark = Some(PanelColor(t.weatherPanelBg, t.weatherPanelOpacity))]
                   ELSE s2
             s4 == IF t.bottomPanelBg # Undefined /\ t.bottomPanelOpacity # Undefined
                   THEN [s3 EXCEPT !.panelDarker = Some(PanelColor(t.bottomPanelBg, t.bottomPanelOpacity))]
                   ELSE s3
             s5 == IF TruthyColor(t.accentColor)
                   THEN [s4 EXCEPT !.accentGold = t.accentColor]
                   ELSE s4
         IN  [pg EXCEPT !.style = s5]

\* variant: the slides are appended to those on the page
applySlidesAppend(slides, pg) ==
    IF ~IsVal(slides) \/ Len(Val(slides)) = 0 THEN pg
    ELSE IF ~pg.domReady THEN pg
    ELSE restartSlideshow([pg EXCEPT !.slidesDom = pg.slidesDom \o Val(slides)])

applySlides(slides, pg) ==
    IF ~IsVal(slides) \/ Len(Val(slides)) = 0 THEN pg
    ELSE IF ~pg.domReady THEN pg
    ELSE restartSlideshow([pg EXCEPT !.slidesDom = Val(slides), !.activeSlides = {1}])

\* variant: without a configuration the school name falls back to config.js
applyGeneralSettingsReset(config, pg) ==
    IF ~IsVal(config) THEN [pg EXCEPT !.CONFIG.SCHOOL_NAME = DefaultCONFIG.SCHOOL_NAME]
    ELSE LET c == Val(config)
             p1 == IF TruthyStr(c.schoolName)
                   THEN [pg EXCEPT !.CONFIG.SCHOOL_NAME = c.schoolName,
                                   !.schoolNameEl = IF pg.domReady THEN c.schoolName
                                                                  ELSE pg.schoolNameEl]
                   ELSE pg
         IN  IF TruthyNum(c.slideshowInterval)
             THEN restartSlideshow([p1 EXCEPT !.CONFIG.SLIDESHOW_INTERVAL = c.slideshowInterval])
             ELSE p1

applyGeneralSettings(config, pg) ==
    IF ~IsVal(config) THEN pg
    ELSE LET c == Val(config)
             p1 == IF TruthyStr(c.schoolName)
                   THEN [pg EXCEPT !.CONFIG.SCHOOL_NAME = c.schoolName,
                                   !.schoolNameEl = IF pg.domReady THEN c.schoolName
                                                                  ELSE pg.schoolNameEl]
                   ELSE pg
         IN  IF TruthyNum(c.slideshowInterval)
             THEN restartSlideshow([p1 EXCEPT !.CONFIG.SLIDESHOW_INTERVAL = c.slideshowInterval])
             ELSE p1

\* variant: a disabled livestream leaves the monitor running
applyLivestreamSettingsNoStop(config, pg) ==
    IF ~IsVal(config) THEN pg
    ELSE LET c == Val(config)
         IN  IF TruthyBool(c.enabled)
             THEN LET p1 == [pg EXCEPT
                               !.CONFIG.LIVESTREAM_URL =
                                   IF TruthyStr(c.url) THEN c.url ELSE Null,
                               !.CONFIG.AUTO_DETECT_LIVESTREAM =
                                   IF TruthyBool(c.autoDetect) THEN c.autoDetect ELSE Some(FALSE),
                               !.CONFIG.LIVESTREAM_CHECK_INTERVAL =
                                   IF TruthyNum(c.checkInterval) THEN c.checkInterval
                                   ELSE Some(LivestreamDefaultCheckInterval)]
                      p2 == LivestreamStopMonitoring(p1)
                  IN  IF TruthyBool(c.autoDetect) THEN LivestreamStartMonitoring(p2) ELSE p2
             ELSE LET p1 == [pg EXCEPT !.CONFIG.LIVESTREAM_URL = Null,
                                       !.CONFIG.AUTO_DETECT_LIVESTREAM = Some(FALSE)]
                      p2 == p1
                  IN  IF p2.lsActive THEN LivestreamShowNull(p2) ELSE p2

\* variant: the check interval of the configuration is not stored
applyLivestreamSettingsOldInterval(config, pg) ==
    IF ~IsVal(config) THEN pg
    ELSE LET c == Val(config)
         IN  IF TruthyBool(c.enabled)
             THEN LET p1 == [pg EXCEPT
                               !.CONFIG.LIVESTREAM_URL =
                                   IF TruthyStr(c.url) THEN c.url ELSE Null,
                               !.CONFIG.AUTO_DETECT_LIVESTREAM =
                                   IF TruthyBool(c.autoDetect) THEN c.autoDetect ELSE Some(FALSE)]
                      p2 == LivestreamStopMonitoring(p1)
                  IN  IF TruthyBool(c.autoDetect) THEN LivestreamStartMonitoring(p2) ELSE p2
             ELSE LET p1 == [pg EXCEPT !.CONFIG.LIVESTREAM_URL = Null,
                                       !.CONFIG.AUTO_DETECT_LIVESTREAM = Some(FALSE)]
                      p2 == LivestreamStopMonitoring(p1)
                  IN  IF p2.lsActive THEN LivestreamShowNull(p2) ELSE p2

applyLivestreamSettings(config, pg) ==
    IF ~IsVal(config) THEN pg
    ELSE LET c == Val(config)
         IN  IF TruthyBool(c.enabled)
             THEN LET p1 == [pg EXCEPT
                               !.CONFIG.LIVESTREAM_URL =
                                   IF TruthyStr(c.url) THEN c.url ELSE Null,
                               !.CONFIG.AUTO_DETECT_LIVESTREAM =
                                   IF TruthyBool(c.autoDetect) THEN c.autoDetect ELSE Some(FALSE),
                               !.CONFIG.LIVESTREAM_CHECK_INTERVAL =
                                   IF TruthyNum(c.checkInterval) THEN c.checkInterval
                                   ELSE Some(LivestreamDefaultCheckInterval)]
                      p2 == LivestreamStopMonitoring(p1)
                  IN  IF TruthyBool(c.autoDetect) THEN LivestreamStartMonitoring(p2) ELSE p2
             ELSE LET p1 == [pg EXCEPT !.CONFIG.LIVESTREAM_URL = Null,
                                       !.CONFIG.AUTO_DETECT_LIVESTREAM = Some(FALSE)]
                      p2 == LivestreamStopMonitoring(p1)
                  IN  IF p2.lsActive THEN LivestreamShowNull(p2) ELSE p2

\* A DOMContentLoaded listener of the loader is () => applySlides(settings.customSlides)
\* (kind "settings", no text of its own) or () => applySlides(JSON.parse(customSlides))
\* (kind "cache", with the cached text).
NoText == JSONText(Undefined)

\* the part of applyAllSettings after the assignment to settings: s is the
\* value settings has just been given
ApplyBundle(s, pg) ==
    LET p1 == applyTheme(s.customTheme, pg)
        p2 == applyGeneralSettings(s.generalConfig, p1)
        p3 == applyLivestreamSettings(s.livestreamConfig, p2)
        p4 == IF ~p3.domReady
              THEN [p3 EXCEPT !.dcl = Append(p3.dcl, [kind |-> "settings", text |-> NoText])]
              ELSE applySlides(s.customSlides, p3)
    IN  IF s.USE_IMAGE_SLIDES # Undefined
        THEN [p4 EXCEPT !.CONFIG.USE_IMAGE_SLIDES = Some(s.USE_IMAGE_SLIDES = Some(TRUE))]
        ELSE p4

\* variant: the new bundle is merged into the one held so far
NewSettingsMerged(allSettings, old) ==
    IF IsVal(allSettings)
    THEN [k \in DOMAIN old |-> IF Val(allSettings)[k] # Undefined
                               THEN Val(allSettings)[k] ELSE old[k]]
    ELSE old

\* settings = allSettings || {}: the bundle held so far plays no part
NewSettings(allSettings, old) == IF IsVal(allSettings) THEN Val(allSettings) ELSE EmptyBundle

\* ------------------------------------------------------------ Local Cache
\* localStorage.getItem yields null or the stored string.  The display never
\* writes these keys; the admin panel stores JSON.stringify of the value
\* (src/admin.js:314, 495, 521, 568, 599).
NoCache == [customTheme |-> Null, customSlides |-> Null, generalConfig |-> Null,
            livestreamConfig |-> Null, USE_IMAGE_SLIDES |-> Null]
CacheLincoln == [NoCache EXCEPT !.generalConfig = Some(JSONText(Some(GeneralLincoln)))]
CacheFull == [customTheme |-> Some(JSONText(Some(ThemeFull))),
              customSlides |-> Some(JSONText(Some(SlidesAB))),
              generalConfig |-> Some(JSONText(Some(GeneralOak))),
              livestreamConfig |-> Some(JSONText(Some(LivestreamOn))),
              USE_IMAGE_SLIDES |-> Some("true")]
Caches == {NoCache, CacheLincoln, CacheFull}

\* a stored item whose JSON.parse throws
ParseThrows(item) == IsVal(item) /\ ~JSONParse(Val(item)).ok
Parsed(item) == JSONParse(Val(item)).val

\* variant: only the cached theme is applied
loadFromLocalStorageThemeOnly(ls, pg) ==
    IF IsVal(ls.customTheme) /\ ~ParseThrows(ls.customTheme)
    THEN applyTheme(Parsed(ls.customTheme), pg) ELSE pg

loadFromLocalStorage(ls, pg) ==
    IF ParseThrows(ls.customTheme) THEN pg ELSE
    LET p1 == IF IsVal(ls.customTheme) THEN applyTheme(Parsed(ls.customTheme), pg) ELSE pg IN
    IF ParseThrows(ls.generalConfig) THEN p1 ELSE
    LET p2 == IF IsVal(ls.generalConfig)
              THEN applyGeneralSettings(Parsed(ls.generalConfig), p1) ELSE p1 IN
    IF ParseThrows(ls.livestreamConfig) THEN p2 ELSE
    LET p3 == IF IsVal(ls.livestreamConfig)
              THEN applyLivestreamSettings(Parsed(ls.livestreamConfig), p2) ELSE p2 IN
    IF IsVal(ls.customSlides) /\ p3.domReady /\ ParseThrows(ls.customSlides) THEN p3 ELSE
    LET p4 == IF ~IsVal(ls.customSlides) THEN p3
              ELSE IF ~p3.domReady
                   THEN [p3 EXCEPT !.dcl = Append(p3.dcl, [kind |-> "cache",
                                                            text |-> Val(ls.customSlides)])]
                   ELSE applySlides(Parsed(ls.customSlides), p3)
    IN  IF ls.USE_IMAGE_SLIDES # Null
        THEN [p4 EXCEPT !.CONFIG.USE_IMAGE_SLIDES = Some(ls.USE_IMAGE_SLIDES = Some("true"))]
        ELSE p4

\* ---------------------------------------------------------- stream events
Alert1 == [message |-> "Fire drill"]

NoMsg == [type |-> Undefined, settings |-> Undefined, alert |-> Undefined]
MsgInitial(b) == [NoMsg EXCEPT !.type = Some("initial"), !.settings = b]
MsgUpdate(b) == [NoMsg EXCEPT !.type = Some("settings_update"), !.settings = b]
MsgAlert == [NoMsg EXCEPT !.type = Some("emergency_alert"), !.alert = Some(Alert1)]
MsgCancel == [NoMsg EXCEPT !.type = Some("emergency_cancel")]
MsgShutdown == [NoMsg EXCEPT !.type = Some("server_shutdown")]
MsgUnknown == [NoMsg EXCEPT !.type = Some("future_kind"), !.settings = Some(BundleA)]

\* the data of the messages the stream may deliver: a text that is not JSON,
\* the JSON text null, an object of a kind the display does not know, and
\* the events of the server
DroppedRaw == {Garbage, JSONText(Null), JSONText(Some(MsgUnknown))}
RawMsgs == {JSONText(Some(MsgInitial(Some(b)))) : b \in Bundles}
           \cup {JSONText(Some(MsgUpdate(Some(b)))) : b \in Bundles}
           \cup {JSONText(Some(m)) : m \in {MsgAlert, MsgCancel, MsgShutdown}}
           \cup DroppedRaw

\* variant: an object of an unknown kind is handled like settings_update
KindUnknownApplies(raw) ==
    LET p == JSONParse(raw)
    IN  IF ~p.ok THEN "drop"
        ELSE IF ~IsVal(p.val) THEN "drop"
        ELSE LET t == Val(p.val).type
             IN  IF t = Some("initial") THEN "initial"
                 ELSE IF t = Some("emergency_alert") THEN "emergency_alert"
                 ELSE IF t = Some("emergency_cancel") THEN "emergency_cancel"
                 ELSE IF t = Some("server_shutdown") THEN "server_shutdown"
                 ELSE "settings_update"

\* variant: an emergency_alert takes the branch of settings_update
KindAlertApplies(raw) ==
    LET p == JSONParse(raw)
    IN  IF ~p.ok THEN "drop"
        ELSE IF ~IsVal(p.val) THEN "drop"
        ELSE LET t == Val(p.val).type
             IN  IF t = Some("initial") THEN "initial"
                 ELSE IF t = Some("settings_update") THEN "settings_update"
                 ELSE IF t = Some("emergency_alert") THEN "settings_update"
                 ELSE IF t = Some("emergency_cancel") THEN "emergency_cancel"
                 ELSE IF t = Some("server_shutdown") THEN "server_shutdown"
                 ELSE "drop"

\* variant: settings_update has no branch
KindUpdateIgnored(raw) ==
    LET p == JSONParse(raw)
    IN  IF ~p.ok THEN "drop"
        ELSE IF ~IsVal(p.val) THEN "drop"
        ELSE LET t == Val(p.val).type
             IN  IF t = Some("initial") THEN "initial"
                 ELSE IF t = Some("emergency_alert") THEN "emergency_alert"
                 ELSE IF t = Some("emergency_cancel") THEN "emergency_cancel"
                 ELSE IF t = Some("server_shutdown") THEN "server_shutdown"
                 ELSE "drop"

\* what onmessage does with a text: "drop" covers the exception handler and
\* the kinds no branch matches
Kind(raw) ==
    LET p == JSONParse(raw)
    IN  IF ~p.ok THEN "drop"
        ELSE IF ~IsVal(p.val) THEN "drop"
        ELSE LET t == Val(p.val).type
             IN  IF t = Some("initial") THEN "initial"
                 ELSE IF t = Some("settings_update") THEN "settings_update"
                 ELSE IF t = Some("emergency_alert") THEN "emergency_alert"
                 ELSE IF t = Some("emergency_cancel") THEN "emergency_cancel"
                 ELSE IF t = Some("server_shutdown") THEN "server_shutdown"
                 ELSE "drop"
Data(raw) == Val(JSONParse(raw).val)

\* -------------------------------------------------------- scheduled slides
\* A date text YYYY-MM-DD is the tuple <<d>> of its day number, a time text
\* HH:MM the tuple <<h, m>>, the empty text the empty tuple.  Date texts of
\* one width compare as their days do.
EmptyText == <<>>
DateText(d) == <<d>>
TimeText(h, m) == <<h, m>>
TruthyText(x) == IsVal(x) /\ Val(x) # EmptyText
DateBefore(a, b) == a[1] < b[1]

\* The clock: the civil date and the minute of the day where the display
\* stands, and getTimezoneOffset(), the minutes UTC is ahead of that place.
Days == 1..3
Minutes == {0, 720, 1439}
Offsets == {0, 300, -120}
Nows == [date : Days, minutes : Minutes, offset : Offsets]
Noon == [date |-> 2, minutes |-> 720, offset |-> 0]

\* now.getHours() * 60 + now.getMinutes()
CurrentTime(t) == t.minutes
\* now.getDay(): day 0 is a Sunday
CurrentDay(t) == t.date % 7
\* variant: the date where the display stands
LocalDate(t) == DateText(t.date)
\* now.toISOString().split('T')[0]: the date in UTC
ISODate(t) == DateText(t.date + ((t.minutes + t.offset) \div 1440))

\* startTime.split(':').map(Number), then hours * 60 + minutes
MinutesOf(text) == text[1] * 60 + text[2]

NoSchedule == [enabled |-> Undefined, startDate |-> Undefined, endDate |-> Undefined,
               daysOfWeek |-> Undefined, startTime |-> Undefined, endTime |-> Undefined]

shouldShowSlide(schedule, t) ==
    IF ~IsVal(schedule) THEN FALSE ELSE
    LET s == Val(schedule) IN
    IF ~TruthyBool(s.enabled) THEN FALSE
    ELSE IF TruthyText(s.startDate) /\ DateBefore(ISODate(t), Val(s.startDate)) THEN FALSE
    ELSE IF TruthyText(s.endDate) /\ DateBefore(Val(s.endDate), ISODate(t)) THEN FALSE
    ELSE IF IsVal(s.daysOfWeek) /\ Val(s.daysOfWeek) # {}
            /\ CurrentDay(t) \notin Val(s.daysOfWeek) THEN FALSE
    ELSE IF TruthyText(s.startTime) /\ CurrentTime(t) < MinutesOf(Val(s.startTime)) THEN FALSE
    ELSE IF TruthyText(s.endTime) /\ CurrentTime(t) > MinutesOf(Val(s.endTime)) THEN FALSE
    ELSE TRUE

\* scheduledSlides.find(s => s.slideIndex === index)
FindSchedule(ss, index) ==
    LET hits == {k \in 1..Len(ss) : ss[k].slideIndex = index}
    IN  IF hits = {} THEN Undefined
        ELSE Some(ss[CHOOSE k \in hits : \A h \in hits : k <= h])

\* the callback of allSlides.filter for the slide at index
KeepsSlide(index, ss, t) ==
    LET scheduleConfig == FindSchedule(ss, index)
    IN  IF ~IsVal(scheduleConfig) THEN TRUE
        ELSE shouldShowSlide(Val(scheduleConfig).schedule, t)

RECURSIVE FilterFrom(_, _, _, _)
FilterFrom(slides, i, ss, t) ==
    IF i > Len(slides) THEN <<>>
    ELSE (IF KeepsSlide(i - 1, ss, t) THEN <<slides[i]>> ELSE <<>>)
         \o FilterFrom(slides, i + 1, ss, t)

filterScheduledSlides(allSlides, ss, t) ==
    IF ~IsVal(allSlides) THEN allSlides
    ELSE Some(FilterFrom(Val(allSlides), 1, ss, t))

\* scheduledSlides after setSlideSchedule(slideIndex, schedule)
SetSchedule(ss, slideIndex, schedule) ==
    LET hits == {k \in 1..Len(ss) : ss[k].slideIndex = slideIndex}
    IN  IF hits # {}
        THEN [ss EXCEPT ![CHOOSE k \in hits : \A h \in hits : k <= h].schedule = schedule]
        ELSE Append(ss, [slideIndex |-> slideIndex, schedule |-> schedule])

\* scheduledSlides after removeSlideSchedule(slideIndex)
RemoveSchedule(ss, slideIndex) == SelectSeq(ss, LAMBDA e : e.slideIndex # slideIndex)

\* ----------------------------------------------------------- error handler
\* errorHandler holds notificationQueue and isShowingNotification of the
\* module, the toasts in #errorNotificationContainer (container, in document
\* order), the pending timeouts of displayNotification and removeNotification,
\* and, as history, the notifications in the order they were displayed and
\* those whose onRetry has run.  The class show of a toast only drives its
\* CSS transition and is left out.
InfoDismissDelay == 3000
ErrorDismissDelay == 5000
RemoveDelay == 300
Levels == {"info", "error", "critical"}

NewErrorHandler(hasContainer) ==
    [notificationQueue |-> <<>>, isShowingNotification |-> FALSE,
     hasContainer |-> hasContainer, container |-> <<>>, timeouts |-> {},
     nextTimeout |-> 1, created |-> 0, clicks |-> 0, displayed |-> <<>>,
     retried |-> {}]
InitErrorHandler == NewErrorHandler(TRUE)

SetTimeout(eh, kind, n, ms) ==
    [eh EXCEPT !.timeouts = @ \cup {[id |-> eh.nextTimeout, kind |-> kind, n |-> n, ms |-> ms]},
               !.nextTimeout = @ + 1]

RECURSIVE processNotificationQueue(_)
RECURSIVE displayNotification(_, _)

displayNotification(n, eh) ==
    IF ~eh.hasContainer THEN processNotificationQueue(eh)
    ELSE LET shown == [eh EXCEPT !.container = Append(@, n), !.displayed = Append(@, n.id)]
         IN  IF n.level # "critical"
             THEN SetTimeout(shown, "dismiss", n.id,
                             IF n.level = "info" THEN InfoDismissDelay ELSE ErrorDismissDelay)
             ELSE shown

processNotificationQueue(eh) ==
    IF eh.notificationQueue = <<>> THEN [eh EXCEPT !.isShowingNotification = FALSE]
    ELSE displayNotification(Head(eh.notificationQueue),
                             [eh EXCEPT !.isShowingNotification = TRUE,
                                        !.notificationQueue = Tail(@)])

\* removeNotification(notification) up to its timeout
removeNotification(id, eh) == SetTimeout(eh, "remove", id, RemoveDelay)

\* the callback of the timeout of removeNotification for the toast id
removeNotificationTimeout(id, eh) ==
    processNotificationQueue(
        [eh EXCEPT !.container = SelectSeq(@, LAMBDA n : n.id # id)])

\* ------------------------------------------------------------------- state
VARIABLES
    eventSource,        \* the loader's eventSource: Null or Some(connection)
    reconnectTimeout,   \* the loader's reconnectTimeout: Null or Some(timer handle)
    settings,           \* the loader's settings
    conns,              \* readyState of every EventSource created so far
    timers,             \* the timeouts that are pending: [id, ms]
    page,               \* see InitPage
    localStorage,       \* the Local Cache
    fetchAll,           \* "inflight" or "done": the request of loadSettingsFromAPI
    statusInflight,     \* requests of checkEmergencyStatus awaiting their response
    tornDown,           \* the beforeunload handler has run
    msgs,               \* stream messages handled so far
    errors,             \* runs of onerror so far
    scheduled,          \* calls of setTimeout by onerror so far
    applyLog,           \* which caller invoked applyAllSettings, in order
    lastDropped,        \* the stream message handled last was not JSON or of no known kind
    lastBundle,         \* the settings the last fetch-all or stream event carried
    lastCall,            \* the call made last on the loaded page: [op, arg, again];
                        \* again: it repeats the applyAllSettings call before it
    alertLog,           \* the calls the alert consumer received, in order: <<path, op>>
    scheduledSlides,    \* scheduled-slides.js: the schedule entries [slideIndex, schedule]
    savedSchedules,     \* the item scheduledSlides of localStorage
    now,                \* the clock of the display: [date, minutes, offset]
    schedResult,        \* the call made last on window.ScheduledSlides and its result
    errorHandler        \* the notification queue of the error handler and its toasts

scheduleVars == <<scheduledSlides, savedSchedules, now, schedResult>>

\* no call has been made on window.ScheduledSlides
NoResult == [op |-> "none", arg |-> Undefined, value |-> Undefined]

\* the module of the scheduled slides as it is loaded with nothing saved
NoSchedules ==
    /\ scheduledSlides = <<>>
    /\ savedSchedules = Null
    /\ now = Noon
    /\ schedResult = NoResult

vars == <<eventSource, reconnectTimeout, settings, conns, timers, page, localStorage,
          fetchAll, statusInflight, tornDown, msgs, errors, scheduled, applyLog,
          lastDropped, lastBundle, lastCall, alertLog, scheduleVars, errorHandler>>

\* no call has been made yet
NoCall == [op |-> "none", arg |-> Undefined, again |-> FALSE]

ConnIds == 1..MaxConns
Created == {c \in ConnIds : conns[c] # "unborn"}
NotClosed == {c \in ConnIds : conns[c] \in {"connecting", "open"}}

\* clearTimeout(id)
ClearTimeout(ts, id) == {t \in ts : t.id # id}

\* variant: close() is never called
CloseConnNot(cs, es) == cs

\* eventSource.close()
CloseConn(cs, es) == IF es # Null THEN [cs EXCEPT ![Val(es)] = "closed"] ELSE cs

\* connectSSE: close what eventSource holds, then create the next EventSource
connectSSE ==
    LET new == Cardinality(Created) + 1
    IN  /\ new \in ConnIds
        /\ conns' = [CloseConn(conns, eventSource) EXCEPT ![new] = "connecting"]
        /\ eventSource' = Some(new)

\* init(): loadSettingsFromAPI() up to its first await, then connectSSE()
Init ==
    /\ eventSource = Some(1)
    /\ reconnectTimeout = Null
    /\ settings = EmptyBundle
    /\ conns = [c \in ConnIds |-> IF c = 1 THEN "connecting" ELSE "unborn"]
    /\ timers = {}
    /\ page = InitPage
    /\ localStorage \in Caches
    /\ fetchAll = "inflight"
    /\ statusInflight = 0
    /\ tornDown = FALSE
    /\ msgs = 0
    /\ errors = 0
    /\ scheduled = 0
    /\ applyLog = <<>>
    /\ lastDropped = FALSE
    /\ lastBundle = Undefined
    /\ lastCall = NoCall
    /\ alertLog = <<>>
    /\ NoSchedules
    /\ errorHandler = InitErrorHandler

\* ------------------------------------------------------- one-shot fetch-all
\* fetch('/api/settings') resolves with a 2xx response whose body is bundle b
FetchAllOk(b) ==
    /\ fetchAll = "inflight"
    /\ fetchAll' = "done"
    /\ settings' = NewSettings(Some(b), settings)
    /\ page' = ApplyBundle(settings', page)
    /\ applyLog' = Append(applyLog, "fetch")
    /\ lastBundle' = Some(b)
    /\ UNCHANGED <<eventSource, reconnectTimeout, conns, timers, localStorage,
                   statusInflight, tornDown, msgs, errors, scheduled, lastDropped, lastCall, alertLog, scheduleVars, errorHandler>>

\* fetch rejects, the status is not 2xx, or the body is not JSON
FetchAllFail ==
    /\ fetchAll = "inflight"
    /\ fetchAll' = "done"
    /\ page' = loadFromLocalStorage(localStorage, page)
    /\ UNCHANGED <<eventSource, reconnectTimeout, settings, conns, timers, localStorage,
                   statusInflight, tornDown, msgs, errors, scheduled, applyLog,
                   lastDropped, lastBundle, lastCall, alertLog, scheduleVars, errorHandler>>

\* ------------------------------------------------------ stream subscriber
\* eventSource.onopen of connection c
\* variant: onopen cancels the timer but keeps its handle
OnOpenTimeoutKept(rt) == rt

OnOpenTimeout(rt) == Null
OnOpenTimers(rt, ts) == IF rt # Null THEN ClearTimeout(ts, Val(rt)) ELSE ts

onopen(c) ==
    /\ conns[c] = "connecting"
    /\ conns' = [conns EXCEPT ![c] = "open"]
    /\ timers' = OnOpenTimers(reconnectTimeout, timers)
    /\ reconnectTimeout' = OnOpenTimeout(reconnectTimeout)
    /\ UNCHANGED <<eventSource, settings, page, localStorage, fetchAll, statusInflight,
                   tornDown, msgs, errors, scheduled, applyLog, lastDropped, lastBundle, lastCall, alertLog, scheduleVars, errorHandler>>

\* eventSource.onmessage of connection c with event.data = raw
\* variant: the status of the emergency alert is never requested
checkEmergencyStatusNot(inflight) == inflight

\* checkEmergencyStatus() up to its first await: one more request in flight
checkEmergencyStatus(inflight) == inflight + 1

onmessageHandler(c, raw) ==
    /\ conns[c] = "open"
    /\ LET k == Kind(raw)
       IN  /\ settings' = IF k \in {"initial", "settings_update"}
                          THEN NewSettings(Data(raw).settings, settings)
                          ELSE settings
           /\ page' = CASE k \in {"initial", "settings_update"} -> ApplyBundle(settings', page)
                        [] k = "emergency_alert" -> EmergencyAlertShow(Val(Data(raw).alert), page)
                        [] k = "emergency_cancel" -> EmergencyAlertHide(page)
                        [] OTHER -> page
           /\ applyLog' = IF k \in {"initial", "settings_update"}
                          THEN Append(applyLog, k) ELSE applyLog
           /\ statusInflight' = IF k = "initial" THEN checkEmergencyStatus(statusInflight)
                                                 ELSE statusInflight
           /\ lastBundle' = IF k \in {"initial", "settings_update"}
                            THEN Data(raw).settings ELSE lastBundle
    /\ lastDropped' = (raw \in DroppedRaw)
    /\ UNCHANGED <<eventSource, reconnectTimeout, conns, timers, localStorage, fetchAll,
                   tornDown, errors, scheduled, lastCall, scheduleVars, errorHandler>>

\* the handler runs for one of at most MaxMsgs messages
onmessage(c, raw) ==
    /\ msgs < MaxMsgs
    /\ msgs' = msgs + 1
    /\ onmessageHandler(c, raw)
    /\ UNCHANGED alertLog

\* eventSource.onerror of connection c.  Before the handler runs the browser
\* has either failed the connection (closed) or announced that it will
\* reestablish it (connecting).
SchedulesReconnect(rt) == rt = Null

\* variant: onerror leaves the connection as the browser left it
OnErrorCloseNot(cs, es) == cs

OnErrorClose(cs, es) == CloseConn(cs, es)

onerror(c, st) ==
    /\ conns[c] \in {"connecting", "open"}
    /\ conns' = OnErrorClose([conns EXCEPT ![c] = st], eventSource)
    /\ errors' = errors + 1
    /\ IF SchedulesReconnect(reconnectTimeout)
       THEN /\ timers' = timers \cup {[id |-> scheduled + 1, ms |-> ReconnectDelay]}
            /\ reconnectTimeout' = Some(scheduled + 1)
            /\ scheduled' = scheduled + 1
       ELSE UNCHANGED <<timers, reconnectTimeout, scheduled>>
    /\ UNCHANGED <<eventSource, settings, page, localStorage, fetchAll, statusInflight,
                   tornDown, msgs, applyLog, lastDropped, lastBundle, lastCall, alertLog, scheduleVars, errorHandler>>

\* the callback of the reconnect timeout t, ReconnectDelay ms after onerror
reconnect(t) ==
    /\ t \in timers
    /\ timers' = timers \ {t}
    /\ connectSSE
    /\ UNCHANGED <<reconnectTimeout, settings, page, localStorage, fetchAll, statusInflight,
                   tornDown, msgs, errors, scheduled, applyLog, lastDropped, lastBundle, lastCall, alertLog, scheduleVars, errorHandler>>

\* the response of a request of checkEmergencyStatus: an active alert, no
\* active alert, or a failure the handler logs
checkEmergencyStatusResume(active) ==
    /\ statusInflight > 0
    /\ statusInflight' = statusInflight - 1
    /\ page' = IF active THEN EmergencyAlertShow(Alert1, page) ELSE page
    /\ UNCHANGED <<eventSource, reconnectTimeout, settings, conns, timers, localStorage,
                   fetchAll, tornDown, msgs, errors, scheduled, applyLog, lastDropped,
                   lastBundle, lastCall, scheduleVars, errorHandler>>

statusResponse(active) == checkEmergencyStatusResume(active) /\ UNCHANGED alertLog

\* the beforeunload listener
beforeunload ==
    /\ ~tornDown
    /\ tornDown' = TRUE
    /\ conns' = CloseConn(conns, eventSource)
    /\ timers' = IF reconnectTimeout # Null THEN ClearTimeout(timers, Val(reconnectTimeout))
                                             ELSE timers
    /\ UNCHANGED <<eventSource, reconnectTimeout, settings, page, localStorage, fetchAll,
                   statusInflight, msgs, errors, scheduled, applyLog, lastDropped, lastBundle, lastCall, alertLog, scheduleVars, errorHandler>>

\* ------------------------------------------------------- DOMContentLoaded
\* one listener of the loader (theme-loader.js:205 and :253)
RunListener(l, s, pg) ==
    IF l.kind = "settings" THEN applySlides(s.customSlides, pg)
    ELSE IF JSONParse(l.text).ok THEN applySlides(JSONParse(l.text).val, pg)
    ELSE pg

RECURSIVE RunListeners(_, _, _)
RunListeners(ls, s, pg) ==
    IF ls = <<>> THEN pg ELSE RunListeners(Tail(ls), s, RunListener(Head(ls), s, pg))

\* initializeSchoolName of init.js; DEFAULT_SCHOOL_NAME is 'School Name'
initializeSchoolName(pg) ==
    [pg EXCEPT !.schoolNameEl = IF TruthyStr(pg.CONFIG.SCHOOL_NAME)
                                THEN pg.CONFIG.SCHOOL_NAME ELSE Some("School Name")]

\* Slideshow.init up to the point where it has to wait: loadImageSlides
\* returns at once unless CONFIG.USE_IMAGE_SLIDES is set
SlideshowInitStart(pg) ==
    IF TruthyBool(pg.CONFIG.USE_IMAGE_SLIDES)
    THEN [pg EXCEPT !.ssAwaiting = TRUE]
    ELSE initSlideshow(pg)

\* The document has been parsed.  The listeners run in the order of their
\* registration: the modules register theirs while their scripts execute,
\* the loader registers its own later, from the callbacks of its requests.
DOMContentLoaded ==
    /\ ~page.domReady
    /\ LET p0 == [page EXCEPT !.domReady = TRUE, !.dcl = <<>>]
           p1 == SlideshowInitStart(p0)
           p2 == initializeSchoolName(p1)
       IN  page' = RunListeners(page.dcl, settings, p2)
    /\ UNCHANGED <<eventSource, reconnectTimeout, settings, conns, timers, localStorage,
                   fetchAll, statusInflight, tornDown, msgs, errors, scheduled, applyLog,
                   lastDropped, lastBundle, lastCall, alertLog, scheduleVars, errorHandler>>

ImageSlides == <<[content |-> "1.png"], [content |-> "2.png"]>>

\* createImageSlides
createImageSlides(images, pg) == [pg EXCEPT !.slidesDom = images, !.activeSlides = {1}]

\* Slideshow.init resumes after loadImageSlides: slides.json listed images
\* (they replace the slides) or it did not
initResume(withImages, pg) ==
    initSlideshow([(IF withImages THEN createImageSlides(ImageSlides, pg) ELSE pg)
                   EXCEPT !.ssAwaiting = FALSE])

slideshowInitResume(withImages) ==
    /\ page.ssAwaiting
    /\ page' = initResume(withImages, page)
    /\ UNCHANGED <<eventSource, reconnectTimeout, settings, conns, timers, localStorage,
                   fetchAll, statusInflight, tornDown, msgs, errors, scheduled, applyLog,
                   lastDropped, lastBundle, lastCall, alertLog, scheduleVars, errorHandler>>

\* ------------------------------------------------------------ specification
Next ==
    \/ \E b \in Bundles : FetchAllOk(b)
    \/ FetchAllFail
    \/ \E c \in ConnIds : onopen(c)
    \/ \E c \in ConnIds, raw \in RawMsgs : onmessage(c, raw)
    \/ \E c \in ConnIds, st \in {"connecting", "closed"} : onerror(c, st)
    \/ \E t \in timers : reconnect(t)
    \/ \E active \in BOOLEAN : statusResponse(active)
    \/ beforeunload
    \/ DOMContentLoaded
    \/ \E withImages \in BOOLEAN : slideshowInitResume(withImages)

Spec == Init /\ [][Next]_vars

TypeOK ==
    /\ eventSource \in {Null} \cup {Some(c) : c \in ConnIds}
    /\ conns \in [ConnIds -> {"unborn", "connecting", "open", "closed"}]
    /\ settings \in Bundles \cup {EmptyBundle}
    /\ timers \subseteq [id : 1..MaxConns, ms : {ReconnectDelay}]
    /\ localStorage \in Caches
    /\ fetchAll \in {"inflight", "done"}
    /\ statusInflight \in 0..MaxMsgs
    /\ tornDown \in BOOLEAN
    /\ msgs \in 0..MaxMsgs

\* ------------------------------------------- the appliers on a loaded page
\* The second specification starts where the document has been parsed and
\* the DOMContentLoaded listeners of the modules have run: Slideshow.init has
\* started the slideshow with the slides of index.html, or, where config.js
\* sets USE_IMAGE_SLIDES, it is waiting for slides.json.  The appliers,
\* applyAllSettings and the slideshow are then called in any order with any
\* of the inputs below.  The stream and the fetch-all play no part in it.
PageAfterLoad(useImageSlides) ==
    initializeSchoolName(SlideshowInitStart(
        [InitPage EXCEPT !.domReady = TRUE, !.CONFIG.USE_IMAGE_SLIDES = useImageSlides]))
LoadedPage == PageAfterLoad(Undefined)

ThemeHalf == [NoTheme EXCEPT !.bgGradientStart = Some(Red), !.mainContentBg = Some(Red),
                             !.bottomPanelBg = Null, !.bottomPanelOpacity = Some(50)]
GeneralFast == [schoolName |-> Undefined, slideshowInterval |-> Some(3000)]
LivestreamManual == [enabled |-> Some(TRUE), url |-> Some("https://x/y"),
                     autoDetect |-> Some(FALSE), checkInterval |-> Undefined]

Missing == {Undefined, Null}
ThemeInputs == Missing \cup {Some(ThemeRed), Some(ThemeHalf)}
SlidesInputs == Missing \cup {Some(<<>>), Some(SlidesAB)}
GeneralInputs == Missing \cup {Some(GeneralOak), Some(GeneralFast)}
LivestreamInputs == Missing \cup {Some(LivestreamOn), Some(LivestreamOff), Some(LivestreamManual)}
AllInputs == {Undefined, Some(BundleA), Some(BundleB)}

\* showSlide(index) on the slides initSlideshow has collected
\* showSlide ends in a TypeError when slides is empty: slides[currentSlide]
\* is undefined
ShowSlideThrows(pg) == pg.ssN = 0

\* what showSlide has done when it returns or throws
showSlide(index, pg) ==
    LET cur == IF index >= pg.ssN THEN 0 ELSE IF index < 0 THEN pg.ssN - 1 ELSE index
    IN  IF ShowSlideThrows(pg) THEN [pg EXCEPT !.currentSlide = cur]
        ELSE [pg EXCEPT !.currentSlide = cur,
                        !.activeSlides = (pg.activeSlides \ (1..pg.ssN)) \cup {cur + 1}]

\* Slideshow.show and Slideshow.hide; the display property of the container
\* is not part of the state
show(pg) == restartSlideshow(pg)
hide(pg) == stopSlideshow(pg)

\* Livestream.show(url): the stream takes the place of the slideshow
LivestreamShowUrl(pg) == hide([pg EXCEPT !.lsActive = TRUE])

InitApply ==
    /\ eventSource = Null
    /\ reconnectTimeout = Null
    /\ settings = EmptyBundle
    /\ conns = [c \in ConnIds |-> "unborn"]
    /\ timers = {}
    /\ page \in {LoadedPage, PageAfterLoad(Some(TRUE))}
    /\ localStorage = NoCache
    /\ fetchAll = "done"
    /\ statusInflight = 0
    /\ tornDown = FALSE
    /\ msgs = 0
    /\ errors = 0
    /\ scheduled = 0
    /\ applyLog = <<>>
    /\ lastDropped = FALSE
    /\ lastBundle = Undefined
    /\ lastCall = NoCall
    /\ alertLog = <<>>
    /\ NoSchedules
    /\ errorHandler = InitErrorHandler

streamVars == <<eventSource, reconnectTimeout, conns, timers, localStorage, fetchAll,
                statusInflight, tornDown, msgs, errors, scheduled, applyLog, lastDropped,
                lastBundle, alertLog>>

\* applyAllSettings(a) by a module that has obtained a bundle
CallApplyAll(a) ==
    /\ settings' = NewSettings(a, settings)
    /\ page' = ApplyBundle(settings', page)
    /\ lastCall' = [op |-> "applyAll", arg |-> a,
                    again |-> lastCall.op = "applyAll" /\ lastCall.arg = a]
    /\ UNCHANGED <<streamVars, scheduleVars, errorHandler>>

CallApplyTheme(x) ==
    /\ page' = applyTheme(x, page)
    /\ lastCall' = [op |-> "applyTheme", arg |-> x, again |-> FALSE]
    /\ UNCHANGED <<settings, streamVars, scheduleVars, errorHandler>>

CallApplySlides(x) ==
    /\ page' = applySlides(x, page)
    /\ lastCall' = [op |-> "applySlides", arg |-> x, again |-> FALSE]
    /\ UNCHANGED <<settings, streamVars, scheduleVars, errorHandler>>

CallApplyGeneralSettings(x) ==
    /\ page' = applyGeneralSettings(x, page)
    /\ lastCall' = [op |-> "applyGeneralSettings", arg |-> x, again |-> FALSE]
    /\ UNCHANGED <<settings, streamVars, scheduleVars, errorHandler>>

CallApplyLivestreamSettings(x) ==
    /\ page' = applyLivestreamSettings(x, page)
    /\ lastCall' = [op |-> "applyLivestreamSettings", arg |-> x, again |-> FALSE]
    /\ UNCHANGED <<settings, streamVars, scheduleVars, errorHandler>>

\* the auto-advance timer t fires: nextSlide
nextSlide(t) ==
    /\ t \in page.intervals
    /\ page' = showSlide(page.currentSlide + 1, page)
    /\ lastCall' = [op |-> "nextSlide", arg |-> Undefined, again |-> FALSE]
    /\ UNCHANGED <<settings, streamVars, scheduleVars, errorHandler>>

CallShow ==
    /\ page' = show(page)
    /\ lastCall' = [op |-> "show", arg |-> Undefined, again |-> FALSE]
    /\ UNCHANGED <<settings, streamVars, scheduleVars, errorHandler>>

CallHide ==
    /\ page' = hide(page)
    /\ lastCall' = [op |-> "hide", arg |-> Undefined, again |-> FALSE]
    /\ UNCHANGED <<settings, streamVars, scheduleVars, errorHandler>>

CallRestart ==
    /\ page' = restartSlideshow(page)
    /\ lastCall' = [op |-> "restart", arg |-> Undefined, again |-> FALSE]
    /\ UNCHANGED <<settings, streamVars, scheduleVars, errorHandler>>

\* Slideshow.init resumes after loadImageSlides
InitResumes(withImages) ==
    /\ page.ssAwaiting
    /\ page' = initResume(withImages, page)
    /\ lastCall' = [op |-> "init", arg |-> Undefined, again |-> FALSE]
    /\ UNCHANGED <<settings, streamVars, scheduleVars, errorHandler>>

\* a poll of the livestream monitor: it finds the stream live (and shows it)
\* or not live (and gives the screen back to the slideshow)
LivestreamPoll(live) ==
    /\ IsVal(page.monitor)
    /\ page' = IF live /\ ~page.lsActive THEN LivestreamShowUrl(page)
               ELSE IF ~live /\ page.lsActive THEN LivestreamShowNull(page)
               ELSE page
    /\ lastCall' = [op |-> "poll", arg |-> Undefined, again |-> FALSE]
    /\ UNCHANGED <<settings, streamVars, scheduleVars, errorHandler>>

NextApply ==
    \/ \E a \in AllInputs : CallApplyAll(a)
    \/ \E x \in ThemeInputs : CallApplyTheme(x)
    \/ \E x \in SlidesInputs : CallApplySlides(x)
    \/ \E x \in GeneralInputs : CallApplyGeneralSettings(x)
    \/ \E x \in LivestreamInputs : CallApplyLivestreamSettings(x)
    \/ \E t \in page.intervals : nextSlide(t)
    \/ CallShow
    \/ CallHide
    \/ CallRestart
    \/ \E live \in BOOLEAN : LivestreamPoll(live)
    \/ \E withImages \in BOOLEAN : InitResumes(withImages)

SpecApply == InitApply /\ [][NextApply]_vars

\* ------------------------------------------- the emergency alert consumer
\* The third specification follows the calls window.EmergencyAlert receives
\* from the two paths of the loader: the stream's emergency events and the
\* responses of checkEmergencyStatus, which every initial event requests.
MaxAlertMsgs == 3

AlertRawMsgs == {JSONText(Some(MsgInitial(Some(BundleA)))), JSONText(Some(MsgAlert)),
                 JSONText(Some(MsgCancel))}

StreamShow == <<"stream", "show">>
StreamHide == <<"stream", "hide">>
PollShow == <<"poll", "show">>

InitAlert == Init /\ localStorage = NoCache

\* the calls of window.EmergencyAlert onmessage makes for a message of kind k
StreamCalls(k) ==
    CASE k = "emergency_alert" -> <<StreamShow>>
      [] k = "emergency_cancel" -> <<StreamHide>>
      [] OTHER -> <<>>

AlertOnMessage(c, raw) ==
    /\ msgs < MaxAlertMsgs
    /\ msgs' = msgs + 1
    /\ onmessageHandler(c, raw)
    /\ alertLog' = alertLog \o StreamCalls(Kind(raw))

AlertStatusResponse(active) ==
    /\ checkEmergencyStatusResume(active)
    /\ alertLog' = IF active THEN Append(alertLog, PollShow) ELSE alertLog

NextAlert ==
    \/ \E c \in ConnIds : onopen(c)
    \/ \E c \in ConnIds, raw \in AlertRawMsgs : AlertOnMessage(c, raw)
    \/ \E active \in BOOLEAN : AlertStatusResponse(active)
    \/ \E c \in ConnIds, st \in {"connecting", "closed"} : onerror(c, st)
    \/ \E t \in timers : reconnect(t)

SpecAlert == InitAlert /\ [][NextAlert]_vars

\* ------------------------------------------------------- the slideshow
\* The slideshow under its callers: the arrow keys (init.js:63, :69) call
\* next and previous, the loader calls restart through applySlides, the
\* auto-advance timers call nextSlide, and Slideshow.init may still be
\* waiting for slides.json.
CallNext ==
    /\ page' = showSlide(page.currentSlide + 1, page)
    /\ lastCall' = [op |-> "next", arg |-> Undefined, again |-> FALSE]
    /\ UNCHANGED <<settings, streamVars, scheduleVars, errorHandler>>

CallPrevious ==
    /\ page' = showSlide(page.currentSlide - 1, page)
    /\ lastCall' = [op |-> "previous", arg |-> Undefined, again |-> FALSE]
    /\ UNCHANGED <<settings, streamVars, scheduleVars, errorHandler>>

NextSlideshow ==
    \/ CallNext
    \/ CallPrevious
    \/ CallRestart
    \/ \E x \in SlidesInputs \cup {Some(SlidesC)} : CallApplySlides(x)
    \/ \E t \in page.intervals : nextSlide(t)
    \/ \E withImages \in BOOLEAN : InitResumes(withImages)

SpecSlideshow == InitApply /\ [][NextSlideshow]_vars

\* ----------------------------------------------------- scheduled slides
\* The specifications of window.ScheduledSlides: the clock stands at any of
\* Nows, and the functions of the module are called with any input.
appVars == <<streamVars, settings, page, lastCall, errorHandler>>

StartDates == {Undefined, Some(EmptyText), Some(DateText(2))}
EndDates == {Undefined, Some(DateText(2))}
WeekDays == {Undefined, Some({}), Some({2})}
StartTimes == {Undefined, Some(TimeText(0, 0)), Some(TimeText(12, 0))}
EndTimes == {Undefined, Some(TimeText(12, 0)), Some(TimeText(23, 59))}
ScheduleInputs ==
    {Undefined, Null}
    \cup {Some(s) : s \in [enabled : {Some(FALSE), Some(TRUE)},
                           startDate : StartDates, endDate : EndDates,
                           daysOfWeek : WeekDays, startTime : StartTimes,
                           endTime : EndTimes]}

InitSchedule ==
    /\ eventSource = Null
    /\ reconnectTimeout = Null
    /\ settings = EmptyBundle
    /\ conns = [c \in ConnIds |-> "unborn"]
    /\ timers = {}
    /\ page = InitPage
    /\ localStorage = NoCache
    /\ fetchAll = "done"
    /\ statusInflight = 0
    /\ tornDown = FALSE
    /\ msgs = 0
    /\ errors = 0
    /\ scheduled = 0
    /\ applyLog = <<>>
    /\ lastDropped = FALSE
    /\ lastBundle = Undefined
    /\ lastCall = NoCall
    /\ alertLog = <<>>
    /\ errorHandler = InitErrorHandler
    /\ scheduledSlides = <<>>
    /\ savedSchedules = Null
    /\ now \in Nows
    /\ schedResult = NoResult

CallShouldShowSlide(schedule) ==
    /\ schedResult' = [op |-> "shouldShowSlide", arg |-> schedule,
                       value |-> shouldShowSlide(schedule, now)]
    /\ UNCHANGED <<appVars, scheduledSlides, savedSchedules, now>>

NextShouldShow == \E schedule \in ScheduleInputs : CallShouldShowSlide(schedule)

SpecShouldShow == InitSchedule /\ [][NextShouldShow]_vars

\* the schedules the entries are given, the slide lists that are filtered
SlideIndexes == 0..2
Enabled == [NoSchedule EXCEPT !.enabled = Some(TRUE)]
EntrySchedules ==
    {Some(Enabled), Some([NoSchedule EXCEPT !.enabled = Some(FALSE)]),
     Some([Enabled EXCEPT !.startDate = Some(DateText(2)), !.endDate = Some(DateText(2))]),
     Some([Enabled EXCEPT !.startTime = Some(TimeText(12, 0))])}
SlideLists == {Undefined, Null, Some(<<>>), Some(<<"a", "b", "c">>)}

setSlideSchedule(slideIndex, schedule) ==
    /\ scheduledSlides' = SetSchedule(scheduledSlides, slideIndex, schedule)
    /\ savedSchedules' = Some(JSONText(Some(scheduledSlides')))
    /\ schedResult' = [op |-> "setSlideSchedule", arg |-> slideIndex, value |-> Undefined]
    /\ UNCHANGED <<appVars, now>>

removeSlideSchedule(slideIndex) ==
    /\ scheduledSlides' = RemoveSchedule(scheduledSlides, slideIndex)
    /\ savedSchedules' = Some(JSONText(Some(scheduledSlides')))
    /\ schedResult' = [op |-> "removeSlideSchedule", arg |-> slideIndex, value |-> Undefined]
    /\ UNCHANGED <<appVars, now>>

CallFilterScheduledSlides(allSlides) ==
    /\ schedResult' = [op |-> "filterScheduledSlides", arg |-> allSlides,
                       value |-> filterScheduledSlides(allSlides, scheduledSlides, now)]
    /\ UNCHANGED <<appVars, scheduledSlides, savedSchedules, now>>

NextFilter ==
    \/ \E i \in SlideIndexes, schedule \in EntrySchedules : setSlideSchedule(i, schedule)
    \/ \E i \in SlideIndexes : removeSlideSchedule(i)
    \/ \E allSlides \in SlideLists : CallFilterScheduledSlides(allSlides)

SpecFilter == InitSchedule /\ [][NextFilter]_vars

\* ------------------------------------------------ error notifications
\* The specification of the error handler's toasts: showNotification is
\* called with any level, with or without a retry callback; the buttons of
\* a toast can be clicked while it is in the document; the timeouts fire.
MaxNotifications == 3
MaxClicks == 2

InitNotify ==
    /\ eventSource = Null
    /\ reconnectTimeout = Null
    /\ settings = EmptyBundle
    /\ conns = [c \in ConnIds |-> "unborn"]
    /\ timers = {}
    /\ page = InitPage
    /\ localStorage = NoCache
    /\ fetchAll = "done"
    /\ statusInflight = 0
    /\ tornDown = FALSE
    /\ msgs = 0
    /\ errors = 0
    /\ scheduled = 0
    /\ applyLog = <<>>
    /\ lastDropped = FALSE
    /\ lastBundle = Undefined
    /\ lastCall = NoCall
    /\ alertLog = <<>>
    /\ NoSchedules
    /\ errorHandler \in {NewErrorHandler(TRUE), NewErrorHandler(FALSE)}

notifyOthers == <<streamVars, settings, page, lastCall, scheduleVars>>

showNotification(level, onRetry) ==
    /\ errorHandler.created < MaxNotifications
    /\ LET queued == [errorHandler EXCEPT
                          !.notificationQueue =
                              Append(@, [id |-> errorHandler.created + 1, level |-> level,
                                         onRetry |-> onRetry]),
                          !.created = @ + 1]
       IN  errorHandler' = IF ~errorHandler.isShowingNotification
                           THEN processNotificationQueue(queued) ELSE queued
    /\ UNCHANGED notifyOthers

\* a click on the close button of a toast in the document
clickClose(n) ==
    /\ errorHandler.clicks < MaxClicks
    /\ n \in Range(errorHandler.container)
    /\ errorHandler' = removeNotification(n.id, [errorHandler EXCEPT !.clicks = @ + 1])
    /\ UNCHANGED notifyOthers

\* a click on the retry button: the toast is removed, then onRetry() runs
clickRetry(n) ==
    /\ errorHandler.clicks < MaxClicks
    /\ n \in Range(errorHandler.container)
    /\ n.onRetry
    /\ errorHandler' = [removeNotification(n.id, [errorHandler EXCEPT !.clicks = @ + 1])
                        EXCEPT !.retried = @ \cup {n.id}]
    /\ UNCHANGED notifyOthers

\* a timeout of the error handler fires: the auto-dismiss of a toast or the
\* end of the transition removeNotification waits for
timeoutFires(t) ==
    /\ t \in errorHandler.timeouts
    /\ LET rest == [errorHandler EXCEPT !.timeouts = @ \ {t}]
       IN  errorHandler' = IF t.kind = "dismiss" THEN removeNotification(t.n, rest)
                           ELSE removeNotificationTimeout(t.n, rest)
    /\ UNCHANGED notifyOthers

NextNotify ==
    \/ \E level \in Levels, onRetry \in BOOLEAN : showNotification(level, onRetry)
    \/ \E n \in Range(errorHandler.container) : clickClose(n)
    \/ \E n \in Range(errorHandler.container) : clickRetry(n)
    \/ \E t \in errorHandler.timeouts : timeoutFires(t)

SpecNotify == InitNotify /\ [][NextNotify]_vars

\* =================================================================== claims

\* C1: a transport error closes the connection and schedules a reconnect,
\* 5000 ms later, only if none is pending: at most one reconnect timer is
\* pending in every state, it is the one reconnectTimeout holds, and an error
\* that arrives while a timer is pending leaves the timers as they are.  (While
\* a timer is pending the connection is closed, and a closed EventSource
\* delivers no event.)
C1_SingleReconnectTimer ==
    /\ [](/\ Cardinality(timers) <= 1
          /\ \A t \in timers : t.ms = 5000 /\ reconnectTimeout = Some(t.id)
          /\ timers # {} => NotClosed = {})
    /\ [][errors' = errors + 1 =>
            /\ conns'[Val(eventSource)] = "closed"
            /\ timers # {} => timers' = timers
            /\ timers' # timers => timers = {} /\ Cardinality(timers') = 1]_vars

C1_Witness == errors >= 1 /\ timers # {} /\ NotClosed = {}

\* C2: while the page has not been torn down every transport error is
\* followed by a new connection attempt; the attempt comes from the reconnect
\* timer, so whenever no connection is left a reconnect timer is pending.
C2_EveryErrorIsRetried ==
    (~tornDown /\ errors > 0 /\ NotClosed = {}) => timers # {}

\* C3: after N transport errors exactly N reconnect attempts have been
\* scheduled, and never more than one of them is pending.
C3_ErrorsEqualScheduled ==
    scheduled = errors /\ Cardinality(timers) <= 1

\* C4: at most one stream connection is not closed at any time, it is the one
\* eventSource holds, and every connectSSE leaves the connection held before
\* closed.
C4_OneConnection ==
    /\ [](Cardinality(NotClosed) <= 1 /\ \A c \in NotClosed : eventSource = Some(c))
    /\ [][Cardinality(Created') > Cardinality(Created) =>
            conns'[Val(eventSource)] = "closed"]_vars

C4_Witness == Cardinality(Created) >= 2 /\ NotClosed # {}

\* C5: while the connection is open no reconnect is pending and the handle
\* reconnectTimeout is cleared.
C5_OpenMeansNoReconnect ==
    \A c \in ConnIds : conns[c] = "open" => reconnectTimeout = Null /\ timers = {}

C5_Witness == conns[2] = "open" /\ scheduled >= 1

\* C6: teardown closes the connection and clears the reconnect timer, and
\* after teardown nothing happens any more: no reconnect, no stream message,
\* and no response of the fetch-all or of an emergency-status request changes
\* the settings, the applied theme and configuration or the alert.
C6_NothingAfterTeardown ==
    [][/\ (~tornDown /\ tornDown') => (NotClosed' = {} /\ timers' = {})
       /\ tornDown => /\ UNCHANGED <<settings, conns, timers, eventSource, reconnectTimeout,
                                     msgs, applyLog>>
                      /\ page'.style = page.style
                      /\ page'.CONFIG = page.CONFIG
                      /\ page'.alert = page.alert]_vars

\* C7: a stream message that is not JSON or that is of no known kind is
\* dropped: settings, page, connections and timers stay as they are and no
\* reconnect is scheduled.
C7_DroppedMessagesChangeNothing ==
    [][(msgs' = msgs + 1 /\ lastDropped') =>
          UNCHANGED <<settings, page, conns, timers, eventSource, reconnectTimeout,
                      scheduled, statusInflight, applyLog, fetchAll>>]_vars

C7_Witness == lastDropped /\ msgs >= 1 /\ NotClosed # {}

\* C8: when the fetch-all fails every domain the Local Cache holds is applied:
\* until a bundle arrives from the server the configuration, the theme, the
\* monitor and the slide mode are those of the cache, and once the document
\* is parsed the school name on display is the cached one.
FetchFailed == fetchAll = "done" /\ \A i \in 1..Len(applyLog) : applyLog[i] # "fetch"

C8_CacheFallback ==
    (FetchFailed /\ applyLog = <<>>) =>
        /\ localStorage = CacheLincoln =>
              /\ page.CONFIG.SCHOOL_NAME = Some("Lincoln HS")
              /\ page.domReady => page.schoolNameEl = Some("Lincoln HS")
        /\ localStorage = CacheFull =>
              /\ page.CONFIG.SCHOOL_NAME = Some("Oak MS")
              /\ page.domReady => page.schoolNameEl = Some("Oak MS")
              /\ page.CONFIG.SLIDESHOW_INTERVAL = Some(5000)
              /\ page.style.bgGradientStart = Some(Navy)
              /\ page.style.bgGradientEnd = Some(Red)
              /\ page.style.panelBg = Some([rgb |-> [r |-> 30, g |-> 60, b |-> 114],
                                            alpha |-> <<80, 100>>])
              /\ page.style.panelDark = Some([rgb |-> [r |-> 0, g |-> 0, b |-> 0],
                                              alpha |-> <<0, 100>>])
              /\ page.style.panelDarker = Some([rgb |-> [r |-> 255, g |-> 0, b |-> 0],
                                                alpha |-> <<100, 100>>])
              /\ page.style.accentGold = Some(Navy)
              /\ page.CONFIG.LIVESTREAM_URL = Some("https://x/y")
              /\ page.CONFIG.AUTO_DETECT_LIVESTREAM = Some(TRUE)
              /\ page.monitor = Some(30000)
              /\ page.CONFIG.USE_IMAGE_SLIDES = Some(TRUE)
              /\ page.domReady => page.slidesDom \in {SlidesAB, ImageSlides}

C8_Witness ==
    /\ FetchFailed /\ applyLog = <<>> /\ localStorage = CacheLincoln
    /\ page.schoolNameEl = Some("Lincoln HS")

\* C9: the settings held are exactly the bundle that arrived last, from the
\* fetch-all or from the stream, whole; between arrivals they do not change.
C9_LastWriteWins ==
    /\ [](IsVal(lastBundle) => settings = Val(lastBundle))
    /\ [][Len(applyLog') = Len(applyLog) => settings' = settings]_vars

C9_Witness ==
    /\ applyLog = <<"initial", "fetch">>
    /\ settings = BundleB

\* C10: the handling of every initial or settings_update event is one
\* applyAllSettings with the bundle of that event, so that the settings are
\* then that bundle.
C10_StreamEventsApplied ==
    [][\A c \in ConnIds, b \in Bundles :
          (\/ onmessage(c, JSONText(Some(MsgInitial(Some(b)))))
           \/ onmessage(c, JSONText(Some(MsgUpdate(Some(b)))))) =>
              /\ settings' = b
              /\ Len(applyLog') = Len(applyLog) + 1
              /\ page'.CONFIG.SCHOOL_NAME = Val(b.generalConfig).schoolName]_vars

C10_Witness ==
    /\ applyLog = <<"initial", "settings_update">>
    /\ settings = BundleB
    /\ page.CONFIG.SCHOOL_NAME = Some("Oak MS")

\* what the claims below compare of a page: theme values, configuration,
\* rendered slides, active slide, and the timers by number and period
Rendered(pg) ==
    [style |-> pg.style, CONFIG |-> pg.CONFIG, schoolNameEl |-> pg.schoolNameEl,
     slidesDom |-> pg.slidesDom, activeSlides |-> pg.activeSlides,
     currentSlide |-> pg.currentSlide,
     slideshowTimers |-> Cardinality(pg.intervals),
     slideshowPeriods |-> {t.ms : t \in pg.intervals},
     monitor |-> pg.monitor, lsActive |-> pg.lsActive]

\* C11: applyAllSettings called a second time in a row with the same bundle
\* leaves what the first call left: settings, theme values, configuration,
\* rendered slides (none duplicated), active slide, and the number and period
\* of the slideshow and livestream-monitor timers.
C11_ApplyAllIdempotent ==
    [][(lastCall'.op = "applyAll" /\ lastCall'.again) =>
          /\ settings' = settings
          /\ Rendered(page') = Rendered(page)]_vars

C11_Witness ==
    /\ lastCall.op = "applyAll" /\ lastCall.again /\ lastCall.arg = Some(BundleA)
    /\ page.slidesDom = SlidesAB
    /\ Cardinality(page.intervals) = 1

\* C12: applyTheme, applySlides, applyGeneralSettings and
\* applyLivestreamSettings called with undefined or null return at once: the
\* page (theme values, slides, configuration, timers, monitor) and the
\* settings are as before the call.
ApplierOps == {"applyTheme", "applySlides", "applyGeneralSettings", "applyLivestreamSettings"}

C12_MissingInputNoChange ==
    [][(lastCall'.op \in ApplierOps /\ ~IsVal(lastCall'.arg)) =>
          /\ page' = page
          /\ settings' = settings]_vars

C12_Witness ==
    /\ lastCall.op = "applyGeneralSettings" /\ lastCall.arg = Null
    /\ page.CONFIG.SCHOOL_NAME = Some("Oak MS")
    /\ page.CONFIG.SLIDESHOW_INTERVAL = Some(5000)

\* C13: a key that is absent from the bundle and a key that is null both mean
\* "use default": after applyAllSettings of a bundle without a customTheme
\* (generalConfig, livestreamConfig) the theme values (school name and
\* slideshow interval, livestream configuration and monitor) are those of
\* the page as it loads, whatever was applied before.
C13_AbsentOrNullMeansDefault ==
    lastCall.op = "applyAll" =>
        /\ ~IsVal(settings.customTheme) => page.style = DefaultStyle
        /\ ~IsVal(settings.generalConfig) =>
              /\ page.CONFIG.SCHOOL_NAME = DefaultCONFIG.SCHOOL_NAME
              /\ page.CONFIG.SLIDESHOW_INTERVAL = DefaultCONFIG.SLIDESHOW_INTERVAL
        /\ ~IsVal(settings.livestreamConfig) =>
              /\ page.CONFIG.LIVESTREAM_URL = DefaultCONFIG.LIVESTREAM_URL
              /\ page.monitor = Undefined

\* C14: applyTheme changes nothing but the style, and of the style only the
\* values whose fields the theme supplies: the gradient when both of its
\* colours are given, a panel colour when its colour and its opacity are
\* given, the accent when it is given.  A value with an unspecified field
\* keeps what was applied before.
ThemeApplied == IF lastCall.op = "applyTheme" THEN lastCall.arg ELSE settings.customTheme

C14_ThemePartial ==
    [][(lastCall'.op \in {"applyTheme", "applyAll"} /\ IsVal(ThemeApplied')) =>
          LET t == Val(ThemeApplied')
              old == page.style
              new == page'.style
          IN  /\ lastCall'.op = "applyTheme" => page' = [page EXCEPT !.style = new]
              /\ (t.bgGradientStart = Undefined \/ t.bgGradientEnd = Undefined) =>
                    /\ new.bgGradientStart = old.bgGradientStart
                    /\ new.bgGradientEnd = old.bgGradientEnd
              /\ (t.mainContentBg = Undefined \/ t.mainContentOpacity = Undefined) =>
                    new.panelBg = old.panelBg
              /\ (t.weatherPanelBg = Undefined \/ t.weatherPanelOpacity = Undefined) =>
                    new.panelDark = old.panelDark
              /\ (t.bottomPanelBg = Undefined \/ t.bottomPanelOpacity = Undefined) =>
                    new.panelDarker = old.panelDarker
              /\ t.accentColor = Undefined => new.accentGold = old.accentGold
              /\ TruthyColor(t.accentColor) => new.accentGold = t.accentColor]_vars

C14_Witness ==
    /\ lastCall.op = "applyTheme" /\ lastCall.arg = Some(ThemeHalf)
    /\ page.style.accentGold = Some(Red)
    /\ page.style.panelDarker = Some([rgb |-> [r |-> 0, g |-> 0, b |-> 0], alpha |-> <<50, 100>>])
    /\ page.style.panelBg = Undefined
    /\ page.style.bgGradientStart = Undefined

\* the period initSlideshow gives the auto-advance timer
CurrentInterval(pg) ==
    IF TruthyNum(pg.CONFIG.SLIDESHOW_INTERVAL) THEN Val(pg.CONFIG.SLIDESHOW_INTERVAL)
    ELSE SLIDESHOW_DEFAULT_INTERVAL_MS

\* exactly one auto-advance timer runs, the slideshow holds it, and its period
\* is the interval configured now
OneTimerWithCurrentInterval(pg) ==
    /\ Cardinality(pg.intervals) = 1
    /\ \A t \in pg.intervals : t.ms = CurrentInterval(pg) /\ pg.slideshowInterval = Some(t.id)

\* C15: applySlides with a list of slides that is not empty replaces the
\* rendered slides by the given ones, in order and with none of the old ones
\* left, and restarts the slideshow: slide 0 is the active one and exactly
\* one auto-advance timer runs, with the current interval.  (On the loaded
\* page, called directly or by applyAllSettings.)
SlidesApplied == IF lastCall.op = "applySlides" THEN lastCall.arg ELSE settings.customSlides

C15_SlidesReplaced ==
    [][(/\ lastCall'.op \in {"applySlides", "applyAll"}
        /\ IsVal(SlidesApplied')
        /\ Len(Val(SlidesApplied')) > 0) =>
          /\ page'.slidesDom = Val(SlidesApplied')
          /\ page'.ssN = Len(Val(SlidesApplied'))
          /\ page'.currentSlide = 0
          /\ page'.activeSlides = {1}
          /\ OneTimerWithCurrentInterval(page')]_vars

\* C16: applyGeneralSettings with a slideshow interval stores it and restarts
\* the slideshow: afterwards exactly one auto-advance timer runs, its period
\* is the new interval, and slide 0 is the one on display.  (On the loaded
\* page, called directly or by applyAllSettings.)
GeneralApplied ==
    IF lastCall.op = "applyGeneralSettings" THEN lastCall.arg ELSE settings.generalConfig

C16_IntervalRestartsSlideshow ==
    [][(/\ lastCall'.op \in {"applyGeneralSettings", "applyAll"}
        /\ IsVal(GeneralApplied')
        /\ TruthyNum(Val(GeneralApplied').slideshowInterval)) =>
          /\ page'.CONFIG.SLIDESHOW_INTERVAL = Val(GeneralApplied').slideshowInterval
          /\ Cardinality(page'.intervals) = 1
          /\ \A t \in page'.intervals :
                /\ t.ms = Val(Val(GeneralApplied').slideshowInterval)
                /\ page'.slideshowInterval = Some(t.id)
          /\ page'.currentSlide = 0
          /\ page'.activeSlides = {1}]_vars

\* C17: restart clears the auto-advance timer before it starts one, so that
\* after any sequence of restart, show, hide and apply calls (and of timer
\* ticks and monitor polls between them) at most one slideshow timer runs,
\* and it is the one the slideshow holds in slideshowInterval.
C17_AtMostOneSlideshowTimer ==
    /\ Cardinality(page.intervals) <= 1
    /\ \A t \in page.intervals : page.slideshowInterval = Some(t.id)
    /\ page.slideshowInterval # Null =>
          \E t \in page.intervals : page.slideshowInterval = Some(t.id)

\* the livestream configuration a call has applied
LivestreamApplied ==
    IF lastCall.op = "applyLivestreamSettings" THEN lastCall.arg ELSE settings.livestreamConfig

\* C18: applyLivestreamSettings with enabled false stops the monitor, clears
\* the livestream URL and the auto-detect flag, and, if a livestream is on
\* display, gives the screen back to the slideshow, which runs again.
C18_DisabledStopsLivestream ==
    [][(/\ lastCall'.op \in {"applyLivestreamSettings", "applyAll"}
        /\ IsVal(LivestreamApplied')
        /\ ~TruthyBool(Val(LivestreamApplied').enabled)) =>
          /\ page'.monitor = Undefined
          /\ page'.CONFIG.LIVESTREAM_URL = Null
          /\ page'.CONFIG.AUTO_DETECT_LIVESTREAM = Some(FALSE)
          /\ ~page'.lsActive
          /\ page.lsActive =>
                /\ page'.currentSlide = 0
                /\ \E t \in page'.intervals :
                      page'.slideshowInterval = Some(t.id) /\ t.ms = CurrentInterval(page')]_vars

C18_Witness ==
    /\ lastCall.op = "applyLivestreamSettings" /\ lastCall.arg = Some(LivestreamOff)
    /\ page.CONFIG.LIVESTREAM_CHECK_INTERVAL = Some(30000)
    /\ page.monitor = Undefined
    /\ ~page.lsActive
    /\ page.slideshowInterval # Null

C20_AlertsBypassApplier ==
    [][\A c \in ConnIds :
          (onmessage(c, JSONText(Some(MsgAlert))) \/ onmessage(c, JSONText(Some(MsgCancel)))) =>
              /\ UNCHANGED <<settings, applyLog, lastBundle, timers, reconnectTimeout, conns,
                             statusInflight, fetchAll>>
              /\ page' = [page EXCEPT !.alert = page'.alert]]_vars

C20_Witness ==
    /\ page.alert = Some(Alert1)
    /\ applyLog = <<"fetch">>
    /\ statusInflight = 0
    /\ msgs = 1
    /\ settings = BundleA

\* C21: when the stream emits emergency_alert and then emergency_cancel, the
\* alert consumer receives the show call and the hide call of the stream one
\* right after the other, and no call from another path follows the hide
\* before the stream emits the next alert.
C21_OneShowThenOneHide ==
    \A i, j \in 1..Len(alertLog) :
        ( /\ i < j
          /\ alertLog[i] = StreamShow
          /\ alertLog[j] = StreamHide
          /\ \A m \in (i+1)..(j-1) : alertLog[m][1] # "stream" )
        => /\ j = i + 1
           /\ \A k \in (j+1)..Len(alertLog) :
                  (\A m \in (j+1)..k : alertLog[m] # StreamShow) => alertLog[k][1] = "stream"

\* C26: after an emergency_cancel event the consumer receives no show call
\* before the stream delivers a new emergency_alert event.
C26_NoShowAfterCancel ==
    \A j, k \in 1..Len(alertLog) :
        (j < k /\ alertLog[j] = StreamHide /\ alertLog[k][2] = "show")
        => \E m \in (j+1)..k : alertLog[m] = StreamShow

\* the step is a run of the initial branch of onmessage, which alone logs
\* an applyAllSettings call as "initial"
InitialHandled == applyLog' = Append(applyLog, "initial")

\* the step is a run of onopen
Opened == \E c \in ConnIds : conns[c] = "connecting" /\ conns'[c] = "open"

\* C22 as stated: every open event of the stream issues one status request.
C22_PollAtStreamOpen ==
    [][Opened => statusInflight' = statusInflight + 1]_vars

\* C22, amended: the status endpoint is polled once for every initial event:
\* an initial event issues exactly one status request, no other step issues
\* one (the open event does not), and a response that reports an active
\* alert leaves that alert shown.
C22_PollAtInitialEvent ==
    [][ /\ InitialHandled => statusInflight' = statusInflight + 1
        /\ statusInflight' > statusInflight => InitialHandled
        /\ Opened => statusInflight' = statusInflight
        /\ statusResponse(TRUE) => page'.alert = Some(Alert1) ]_vars

\* an initial event has issued a request whose response reported the alert
C22_Witness ==
    /\ "initial" \in {applyLog[i] : i \in 1..Len(applyLog)}
    /\ statusInflight = 0
    /\ page.alert = Some(Alert1)
    /\ msgs = 1

\* C23: once a bundle received from the server (fetch-all or stream) has been
\* applied, the Local Cache holds it: a start of the page in which the
\* fetch-all fails would restore from the cache the theme values and the
\* configuration that the bundle applied last gives a fresh page.
C23_CacheHoldsLastAppliedBundle ==
    IsVal(lastBundle) =>
        LET restored == loadFromLocalStorage(localStorage, InitPage)
            applied == ApplyBundle(Val(lastBundle), InitPage)
        IN  /\ restored.style = applied.style
            /\ restored.CONFIG = applied.CONFIG

\* C28: when the fetch-all fails after an initial event of the stream has
\* been applied, the fallback to the Local Cache leaves the theme values,
\* the configuration (general and livestream), the livestream monitor and the
\* rendered slides as the stream left them.
C28_CacheNeverReplacesStream ==
    [][ (FetchAllFail /\ \E i \in 1..Len(applyLog) : applyLog[i] = "initial")
        => /\ page'.style = page.style
           /\ page'.CONFIG = page.CONFIG
           /\ page'.schoolNameEl = page.schoolNameEl
           /\ page'.monitor = page.monitor
           /\ page'.slidesDom = page.slidesDom ]_vars

\* what a schedule says of the moment t where the display stands: it is
\* enabled and t is within each bound it gives
WithinBounds(s, t) ==
    /\ TruthyBool(s.enabled)
    /\ TruthyText(s.startDate) => ~DateBefore(LocalDate(t), Val(s.startDate))
    /\ TruthyText(s.endDate) => ~DateBefore(Val(s.endDate), LocalDate(t))
    /\ (IsVal(s.daysOfWeek) /\ Val(s.daysOfWeek) # {}) => CurrentDay(t) \in Val(s.daysOfWeek)
    /\ TruthyText(s.startTime) => CurrentTime(t) >= MinutesOf(Val(s.startTime))
    /\ TruthyText(s.endTime) => CurrentTime(t) <= MinutesOf(Val(s.endTime))

\* C24: for every enabled schedule and every date, day of the week and time
\* of day, shouldShowSlide returns false when now is before startDate or
\* startTime or after endDate or endTime (or on a day that is not listed),
\* and true when every bound is absent, empty or satisfied.
C24_ShouldShowSlideFollowsBounds ==
    (schedResult.op = "shouldShowSlide" /\ IsVal(schedResult.arg)
        /\ TruthyBool(Val(schedResult.arg).enabled))
    => schedResult.value = WithinBounds(Val(schedResult.arg), now)

\* C25: filterScheduledSlides keeps every slide that has no schedule entry,
\* keeps the kept slides in their order, and drops a slide only if the entry
\* of its own index holds a schedule that says not to show it now.
C25_FilterKeepsUnscheduled ==
    (schedResult.op = "filterScheduledSlides" /\ IsVal(schedResult.arg)) =>
        LET slides == Val(schedResult.arg)
            kept == Val(schedResult.value)
            Pos(x) == CHOOSE i \in 1..Len(slides) : slides[i] = x
        IN  /\ Range(kept) \subseteq Range(slides)
            /\ \A a, b \in 1..Len(kept) : a < b => Pos(kept[a]) < Pos(kept[b])
            /\ \A i \in 1..Len(slides) :
                  (\A k \in 1..Len(scheduledSlides) : scheduledSlides[k].slideIndex # i - 1)
                  => slides[i] \in Range(kept)
            /\ \A i \in 1..Len(slides) :
                  slides[i] \notin Range(kept)
                  => \E k \in 1..Len(scheduledSlides) :
                        /\ scheduledSlides[k].slideIndex = i - 1
                        /\ ~WithinBounds(Val(scheduledSlides[k].schedule), now)

\* C27: when Slideshow.init resumes after loadImageSlides and calls
\* initSlideshow, at most one auto-advance timer is left running, whatever
\* ran while init was waiting (a restart by an applied bundle included).
C27_InitLeavesOneTimer ==
    [][(\E withImages \in BOOLEAN : InitResumes(withImages))
       => Cardinality(page'.intervals) <= 1]_vars

\* C29: no call of next or previous (by a key or by a timer) fails, each
\* moves the index by one and wraps at the ends, and whenever the slideshow
\* holds n >= 1 slides the index is in 0..n-1 and exactly one slide is active.
C29_IndexInRangeNoFailure ==
    /\ [](page.ssN >= 1 => /\ page.currentSlide \in 0..(page.ssN - 1)
                           /\ page.activeSlides = {page.currentSlide + 1})
    /\ [][ /\ (CallNext \/ CallPrevious \/ \E t \in page.intervals : nextSlide(t))
              => ~ShowSlideThrows(page)
           /\ (CallNext /\ page.ssN >= 1)
              => page'.currentSlide = (page.currentSlide + 1) % page.ssN
           /\ (CallPrevious /\ page.ssN >= 1)
              => page'.currentSlide = (page.currentSlide - 1) % page.ssN ]_vars

\* C30: at most one notification is in the document at a time, and the
\* notifications are displayed in the order showNotification was called.
C30_OneNotificationFifo ==
    /\ Len(errorHandler.container) <= 1
    /\ \A i \in 1..Len(errorHandler.displayed) : errorHandler.displayed[i] = i

====
